---- MODULE Spec2Model ----
(***************************************************************************)
(* Model of mod1-turingmachine/scales.h: the measured tuning table and the *)
(* three scale quantizers quantizeToMajor, quantizeToMinor and             *)
(* quantizeToPhrygian.  A call is modelled statement by statement: entry   *)
(* (octave / semitone decomposition), one action per iteration of the for  *)
(* loop, the fallback return after the loop, and the return to the caller. *)
(***************************************************************************)
EXTENDS Integers, Sequences, FiniteSets, TLC

(* ----------------------------- data ------------------------------------ *)

\* scales.h:5-10, with the first entry of the second octave mistyped
tuningValuesTypo ==
  << 0, 11, 15, 19, 23, 27, 31, 35, 40, 44, 48, 53,
     51, 61, 65, 69, 73, 77, 82, 86, 90, 94, 99, 103,
     107, 112, 116, 120, 124, 128, 132, 137, 141, 145, 149, 153,
     157 >>

\* const int tuningValues[] (C index i is element i+1 here)
tuningValues ==
  << 0, 11, 15, 19, 23, 27, 31, 35, 40, 44, 48, 53,
     57, 61, 65, 69, 73, 77, 82, 86, 90, 94, 99, 103,
     107, 112, 116, 120, 124, 128, 132, 137, 141, 145, 149, 153,
     157 >>

\* const int totalNotes = sizeof(tuningValues) / sizeof(tuningValues[0])
totalNotes == Len(tuningValues)

\* the major steps replaced by a copy of the Phrygian steps
majorStepsPhrygian == << 0, 1, 3, 5, 7, 8, 10 >>

majorSteps == << 0, 2, 4, 5, 7, 9, 11 >>

minorSteps == << 0, 2, 3, 5, 7, 8, 10 >>

\* the Phrygian steps replaced by a copy of the minor steps
phrygianStepsMinor == << 0, 2, 3, 5, 7, 8, 10 >>

phrygianSteps == << 0, 1, 3, 5, 7, 8, 10 >>

\* offset added to octave*12 by the return after the loop
majorFallback == 11

\* fallback to the root of the same octave
minorFallbackRoot == minorSteps[1]

\* fallback wrapped to the root of the next octave
minorFallbackWrap == 12 + minorSteps[1]

minorFallback == 10

\* fallback to the root of the same octave
phrygianFallbackRoot == phrygianSteps[1]

phrygianFallback == 10

\* loop bound one too small
LoopBoundShort == Len(majorSteps) - 1

\* for (int i = 0; i < 7; i++)
LoopBound == 7

Fns == {"quantizeToMajor", "quantizeToMinor", "quantizeToPhrygian"}

Steps(f) ==
  CASE f = "quantizeToMajor"    -> majorSteps
    [] f = "quantizeToMinor"    -> minorSteps
    [] f = "quantizeToPhrygian" -> phrygianSteps

FallbackOffset(f) ==
  CASE f = "quantizeToMajor"    -> majorFallback
    [] f = "quantizeToMinor"    -> minorFallback
    [] f = "quantizeToPhrygian" -> phrygianFallback

\* "For all quantizers below: val = 0..(totalNotes-1)"
Vals == 0 .. (totalNotes - 1)

(* --------------------------- expressions ------------------------------- *)

\* int octave = val / 12  (val >= 0, so C truncation is \div)
OctaveOf(v) == v \div 12

\* int semitone = val % 12
SemitoneOf(v) == v % 12

\* index one past the intended entry
TableIndexOffByOne(oct, off) == (oct * 12) + off + 1

\* (octave * 12) + steps[i]
TableIndex(oct, off) == (oct * 12) + off

\* comparison written the wrong way round
StepMatchesReversed(s, step) == s >= step

\* strict comparison
StepMatchesStrict(s, step) == s < step

\* if (semitone <= steps[i])
StepMatches(s, step) == s <= step

\* what a read outside the array may yield
GarbageValues == {-1, 0, 200}

NoFn == "none"
NoIndex == -1
NoValue == -1

(* ------------------------------ state ---------------------------------- *)

VARIABLES
  tuning,     \* contents of the array tuningValues
  pc,         \* "idle" | "loop" | "done"
  fn,         \* the quantizer being executed
  val,        \* its argument
  octave,     \* local
  semitone,   \* local
  i,          \* loop counter
  cmps,       \* evaluations of semitone <= steps[i] in this call
  idx,        \* index used to read tuningValues
  ret,        \* returned value
  via,        \* "loop" | "fallback": which return statement was taken
  prevFn,     \* the previous completed call: function,
  prevVal,    \*   argument
  prevRet     \*   and result

vars == << tuning, pc, fn, val, octave, semitone, i, cmps, idx, ret, via,
           prevFn, prevVal, prevRet >>

locals == << fn, val, octave, semitone, i, cmps, idx, ret, via >>

prev == << prevFn, prevVal, prevRet >>

Init ==
  /\ tuning = tuningValues
  /\ pc = "idle"
  /\ fn = NoFn
  /\ val = 0
  /\ octave = 0
  /\ semitone = 0
  /\ i = 0
  /\ cmps = 0
  /\ idx = NoIndex
  /\ ret = NoValue
  /\ via = "none"
  /\ prevFn = NoFn
  /\ prevVal = 0
  /\ prevRet = NoValue

(* ----------------------------- actions --------------------------------- *)

\* return tuningValues[index]; a read outside the array is undefined
ReadTable(index) ==
  /\ idx' = index
  /\ IF index \in 0 .. (Len(tuning) - 1)
       THEN ret' = tuning[index + 1]
       ELSE ret' \in GarbageValues
  /\ pc' = "done"

\* entry of a quantizer: the two decomposition statements and i = 0
Call(f, v) ==
  /\ pc = "idle"
  /\ fn' = f
  /\ val' = v
  /\ octave' = OctaveOf(v)
  /\ semitone' = SemitoneOf(v)
  /\ i' = 0
  /\ cmps' = 0
  /\ idx' = NoIndex
  /\ ret' = NoValue
  /\ via' = "none"
  /\ pc' = "loop"
  /\ UNCHANGED << tuning, prev >>

\* one iteration of the for loop: test, return or i++
LoopIteration ==
  /\ pc = "loop"
  /\ i < LoopBound
  /\ cmps' = cmps + 1
  /\ IF StepMatches(semitone, Steps(fn)[i + 1])
       THEN /\ ReadTable(TableIndex(octave, Steps(fn)[i + 1]))
            /\ via' = "loop"
            /\ i' = i
       ELSE /\ i' = i + 1
            /\ UNCHANGED << pc, idx, ret, via >>
  /\ UNCHANGED << tuning, fn, val, octave, semitone, prev >>

\* the return after the loop
FallbackReturn ==
  /\ pc = "loop"
  /\ ~(i < LoopBound)
  /\ ReadTable(TableIndex(octave, FallbackOffset(fn)))
  /\ via' = "fallback"
  /\ UNCHANGED << tuning, fn, val, octave, semitone, i, cmps, prev >>

\* the caller takes the result; the locals die
Return ==
  /\ pc = "done"
  /\ prevFn' = fn
  /\ prevVal' = val
  /\ prevRet' = ret
  /\ pc' = "idle"
  /\ fn' = NoFn
  /\ val' = 0
  /\ octave' = 0
  /\ semitone' = 0
  /\ i' = 0
  /\ cmps' = 0
  /\ idx' = NoIndex
  /\ ret' = NoValue
  /\ via' = "none"
  /\ UNCHANGED tuning

Next ==
  \/ \E f \in Fns, v \in Vals : Call(f, v)
  \/ LoopIteration
  \/ FallbackReturn
  \/ Return

Spec == Init /\ [][Next]_vars

\* a started call keeps executing: the functions are straight-line
\* synchronous code with no suspension point
LiveSpec == Spec /\ WF_vars(LoopIteration) /\ WF_vars(FallbackReturn)

(* ------------------------ reference definitions ------------------------ *)

\* the scales as sets of semitone offsets
ScaleOffsets(f) ==
  CASE f = "quantizeToMajor"    -> {0, 2, 4, 5, 7, 9, 11}
    [] f = "quantizeToMinor"    -> {0, 2, 3, 5, 7, 8, 10}
    [] f = "quantizeToPhrygian" -> {0, 1, 3, 5, 7, 8, 10}

MinOf(S) == CHOOSE x \in S : \A y \in S : x <= y

MaxOf(S) == CHOOSE x \in S : \A y \in S : y <= x

OffsetsAtOrAbove(f, s) == {o \in ScaleOffsets(f) : o >= s}

\* smallest offset >= s, or the largest offset of the scale when there is none
ExpectedOffset(f, s) ==
  IF OffsetsAtOrAbove(f, s) # {}
    THEN MinOf(OffsetsAtOrAbove(f, s))
    ELSE MaxOf(ScaleOffsets(f))

TableValues == {tuningValues[k] : k \in 1 .. Len(tuningValues)}

Returned == pc = "done"

(* ------------------------------ claims --------------------------------- *)

\* C1: for every val in 0..totalNotes-1 and each quantizer, the index used to
\* read tuningValues (on the loop return and on the fallback return) lies in
\* 0..totalNotes-1, so the returned value is an entry of the table.
C1_IndexInBounds ==
  Returned =>
    /\ idx \in 0 .. (totalNotes - 1)
    /\ ret = tuningValues[idx + 1]
    /\ ret \in TableValues

C1_Witness == Returned /\ val = totalNotes - 1 /\ idx = totalNotes - 1

\* C2: each quantizer returns tuningValues[octave*12 + o], o the smallest
\* offset of its scale with o >= semitone, and the table entry of the scale's
\* largest offset when no offset is >= semitone.
C2_FirstAtOrAbove ==
  Returned =>
    /\ idx = ((val \div 12) * 12) + ExpectedOffset(fn, val % 12)
    /\ ret = tuningValues[((val \div 12) * 12) + ExpectedOffset(fn, val % 12) + 1]

C2_Witness ==
  Returned /\ fn = "quantizeToMinor" /\ val = 11 /\ via = "fallback" /\ ret = 48

\* C3 as stated: the table index that is read is never below the input
\* (the quantizer never snaps downward).
C3_NeverBelow == Returned => idx >= val

\* C3 amended: the index read is that of the nearest scale degree at or above
\* the input in the same octave whenever the scale has an offset >= val % 12;
\* when it has none (semitone 11 in minor and Phrygian) the index read is
\* octave*12 + 10 = val - 1, one semitone below the input.
C3_NearestAboveOrFallback ==
  Returned =>
    IF OffsetsAtOrAbove(fn, val % 12) # {}
      THEN /\ idx >= val
           /\ idx - ((val \div 12) * 12) \in ScaleOffsets(fn)
           /\ \A o \in ScaleOffsets(fn) :
                o >= val % 12 => ((val \div 12) * 12) + o >= idx
           /\ via = "loop"
      ELSE /\ fn \in {"quantizeToMinor", "quantizeToPhrygian"}
           /\ val % 12 = 11
           /\ idx = val - 1
           /\ via = "fallback"

C3_Witness ==
  Returned /\ fn = "quantizeToMinor" /\ val = 23 /\ idx = 22

\* C4: exact match: if val % 12 is an offset of the quantizer's scale, the
\* quantizer returns tuningValues[val].
C4_ExactMatch ==
  (Returned /\ (val % 12) \in ScaleOffsets(fn)) =>
    (idx = val /\ ret = tuningValues[val + 1])

C4_Witness ==
  Returned /\ fn = "quantizeToMajor" /\ val = 16 /\ ret = 73

\* C5: monotonicity within an octave: for v1 <= v2 in the same octave and the
\* same quantizer, quantize(v1) <= quantize(v2), the fallback step from
\* semitone 10 to semitone 11 included.
C5_MonotoneInOctave ==
  (/\ Returned
   /\ prevFn = fn
   /\ prevVal <= val
   /\ prevVal \div 12 = val \div 12) => prevRet <= ret

C5_Witness ==
  /\ Returned
  /\ fn = "quantizeToMinor"
  /\ prevFn = fn
  /\ via = "fallback"
  /\ prevVal = val - 1

\* C6: the index read lies in the octave block of the input,
\* 12*(val/12) .. 12*(val/12) + 11.
C6_SameOctave ==
  Returned =>
    idx \in (12 * (val \div 12)) .. ((12 * (val \div 12)) + 11)

C6_Witness ==
  Returned /\ fn = "quantizeToPhrygian" /\ val = 35 /\ via = "fallback"
    /\ idx = 34

\* C7 as stated: quantizeToMajor(1) returns 11.
C7_MajorOneIs11 ==
  (Returned /\ fn = "quantizeToMajor" /\ val = 1) => ret = 11

\* C7 amended: quantizeToMajor(1) returns 15, the entry at table index 2.
C7_MajorOneIs15 ==
  (Returned /\ fn = "quantizeToMajor" /\ val = 1) => (idx = 2 /\ ret = 15)

C7_Witness == Returned /\ fn = "quantizeToMajor" /\ val = 1 /\ ret = 15

\* C8: the table has totalNotes = 37 entries (a multiple of 12 plus 1), entry 0
\* is the reference value 0, the entries are non-decreasing, and no quantizer
\* call changes the table.
C8_TableInvariant ==
  /\ tuning = tuningValues
  /\ Len(tuning) = totalNotes
  /\ totalNotes = 37
  /\ totalNotes % 12 = 1
  /\ tuning[1] = 0
  /\ \A k \in 1 .. (Len(tuning) - 1) : tuning[k] <= tuning[k + 1]

C8_Witness == Returned /\ prevFn # NoFn /\ prevFn # fn /\ tuning[37] = 157

\* C9: every call terminates after at most 7 evaluations of the comparison,
\* returning from inside the loop or, after exactly 7 failed comparisons,
\* from the fallback return.
C9_CompareBound ==
  /\ cmps <= 7
  /\ (Returned /\ via = "fallback") => cmps = 7
  /\ (Returned /\ via = "loop") => cmps \in 1 .. 7
  /\ Returned => via \in {"loop", "fallback"}

C9_Terminates ==
  /\ []C9_CompareBound
  /\ (pc = "loop") ~> Returned

C9_Witness == Returned /\ via = "fallback" /\ cmps = 7 /\ i = 7

\* C10: monotonicity over the whole range: for v1 <= v2 in 0..totalNotes-1
\* and the same quantizer, quantize(v1) <= quantize(v2), across octave
\* boundaries and up to the top note.
C10_MonotoneWholeRange ==
  (Returned /\ prevFn = fn /\ prevVal <= val) => prevRet <= ret

C10_Witness ==
  /\ Returned
  /\ fn = "quantizeToPhrygian"
  /\ prevFn = fn
  /\ prevVal = 11
  /\ val = 12
  /\ prevRet = 48
  /\ ret = 57

====
